---- MODULE Spec2Model ----
(***************************************************************************)
(* Model of swyftos/video-auto-splitter.                                   *)
(*                                                                         *)
(*   blobserk.py        single-file splitter (stream copy or re-encode)    *)
(*   blobserkfolder.py  batch splitter over a folder, optional thread pool *)
(*                                                                         *)
(* Durations and offsets are counted in ticks of 0.1 s, so the 0.2 s       *)
(* tolerance of the cutting loops is Slack = 2 ticks.  The external tools  *)
(* (ffprobe, ffmpeg) are collaborators: every exit code and every probed   *)
(* duration is a nondeterministic input of the step that invokes them.     *)
(***************************************************************************)
EXTENDS Integers, Sequences, FiniteSets, TLC

VARIABLES
    prog,           \* which program runs: "single" (blobserk.py), "batch", or
                    \* "pair": the two stream-copy loops side by side
    tools_ok,       \* shutil.which finds ffmpeg and ffprobe
    size_limit,     \* text of --size-limit
    disk,           \* output files that exist, as path strings
    \* ---- blobserkfolder.py
    base_exists,    \* base.exists()
    recursive,      \* args.recursive
    skip_existing,  \* args.skip_existing
    jobs,           \* args.jobs
    b_pc,           \* position of main(): "start", "run", "exited"
    b_exit,         \* exit status of the batch process, NoExit while it runs
    files,          \* what gather_files returned
    queue,          \* discovered files not yet handed to process_one
    running,        \* the files a thread is inside process_one for
    job,            \* job[f]: the state of split_copy for f and process_one's result
    printed,        \* the outcome lines main() has printed, in order
    \* ---- blobserk.py
    input_exists,   \* infile.exists()
    reencode,       \* args.reencode
    simulate,       \* args.simulate
    s_pc,           \* position of main(): "start", "probe", "copy_probe",
                    \* "copy_cut", "copy_verify", "re_cut", "re_verify", "exited"
    s_exit,         \* exit status of the process, NoExit while it runs
    s_cause,        \* what ended the process
    cutter,         \* the cutting loop's state (offset, part_idx, ...)
    remaining       \* the re-encode loop's remaining duration

vars == <<prog, tools_ok, size_limit, disk, base_exists, recursive,
          skip_existing, jobs, b_pc, b_exit, files, queue, running, job,
          printed, input_exists, reencode, simulate, s_pc, s_exit, s_cause, cutter,
          remaining>>

single_vars == <<input_exists, reencode, simulate, s_pc, s_exit, s_cause,
                 cutter, remaining>>

batch_vars == <<base_exists, recursive, skip_existing, jobs, b_pc, b_exit,
                files, queue, running, job, printed>>

(***************************************************************************)
(* Bounds of the model and constants of the program.                       *)
(***************************************************************************)
Slack == 2

MaxDur == 7

MaxJobs == 2

MaxSingleDur == 10

MaxPart == 4

MaxReCuts == 3

NoExit == 0 - 1

(***************************************************************************)
(* human_to_bytes: the text is lower-cased and matched against             *)
(*   ^([0-9]*\.?[0-9]+)\s*([kmgt]?b?)?$                                    *)
(* Lex gives the outcome of the match for the texts the model draws from:  *)
(* the coefficient in tenths and the unit group, or no match.              *)
(***************************************************************************)
SizeTexts == {"1G", "bogus"}

SingleSizeTexts == SizeTexts \cup {"0.5"}

Lex(text) ==
    CASE text = "1G"   -> [match |-> TRUE, tenths |-> 10, unit |-> "g"]
      [] text = "1.5m" -> [match |-> TRUE, tenths |-> 15, unit |-> "m"]
      [] text = "512KB" -> [match |-> TRUE, tenths |-> 5120, unit |-> "kb"]
      [] text = "0.5"  -> [match |-> TRUE, tenths |-> 5, unit |-> ""]
      [] text = "0"    -> [match |-> TRUE, tenths |-> 0, unit |-> ""]
      [] OTHER         -> [match |-> FALSE, tenths |-> 0, unit |-> ""]

StripB(unit) ==
    CASE unit = "kb" -> "k" [] unit = "mb" -> "m" [] unit = "gb" -> "g"
      [] unit = "tb" -> "t" [] unit = "b" -> "" [] OTHER -> unit

Mult(u) ==
    CASE u = "" -> 1 [] u = "k" -> 1024 [] u = "m" -> 1024 * 1024
      [] u = "g" -> 1024 * 1024 * 1024

\* The result of human_to_bytes: ok = FALSE stands for the ValueError.
human_to_bytes(text) ==
    LET m == Lex(text) IN
    IF ~m.match THEN [ok |-> FALSE, bytes |-> 0]
    ELSE LET mult == Mult(StripB(m.unit)) IN
         \* int(val * mult), with val = tenths / 10
         [ok |-> TRUE, bytes |-> (m.tenths \div 10) * mult
                                  + ((m.tenths % 10) * mult) \div 10]

(***************************************************************************)
(* The folder the batch program is pointed at.                             *)
(***************************************************************************)
Folder ==
    { [dir |-> "",     stem |-> "a",     suffix |-> ".mp4", is_file |-> TRUE],
      [dir |-> "",     stem |-> "a",     suffix |-> ".MKV", is_file |-> TRUE],
      [dir |-> "",     stem |-> "notes", suffix |-> ".txt", is_file |-> TRUE],
      [dir |-> "",     stem |-> "clip",  suffix |-> ".mp4", is_file |-> FALSE],
      [dir |-> "sub/", stem |-> "a",     suffix |-> ".mp4", is_file |-> TRUE] }

exts == {".mp4", ".mov", ".m4v", ".mkv", ".avi", ".wmv", ".webm", ".ts",
         ".m2ts", ".flv", ".mpg", ".mpeg"}

lower(s) ==
    CASE s = ".MKV" -> ".mkv" [] s = ".MP4" -> ".mp4" [] s = ".TXT" -> ".txt"
      [] OTHER -> s

is_video_case_sensitive(path) == path.suffix \in exts

is_video(path) == lower(path.suffix) \in exts

\* gather_files returns a list in the directory's order, which is arbitrary;
\* the model keeps the set and lets the dispatch take any remaining file.
gather_files(rec) ==
    {p \in Folder : p.is_file /\ is_video(p) /\ (rec \/ p.dir = "")}

(***************************************************************************)
(* Output names: outdir mirrors the source's parent directory under        *)
(* outroot, the name is {prefix}_part{i:02d}{suffix}.                      *)
(***************************************************************************)
Pad2_first(i) == "01"

Pad2(i) == IF i < 10 THEN "0" \o ToString(i) ELSE ToString(i)

outdir_flat(f) == "out/"

outdir(f) == "out/" \o f.dir

prefix(f) == f.stem

outfile(f, i) == outdir(f) \o prefix(f) \o "_part" \o Pad2(i) \o f.suffix

first_part(f) == outfile(f, 1)

(***************************************************************************)
(* The cutter of one file.  calls is the log of external invocations.      *)
(***************************************************************************)
NewCutter ==
    [st |-> "Idle", why |-> "", d |-> 0, off |-> 0, i |-> 0, cd |-> 0,
     parts |-> <<>>, calls |-> <<>>]

\* A probe is logged with the value the probing function returned (rc) and
\* with what went wrong inside it (fault, "" when nothing did).
ProbeCall(path, res, fault) ==
    [op |-> "probe", path |-> path, off |-> 0, i |-> 0, rc |-> res, limit |-> 0,
     fault |-> fault]

CutCall(path, off, i, rc, limit) ==
    [op |-> "cut", path |-> path, off |-> off, i |-> i, rc |-> rc, limit |-> limit,
     fault |-> ""]

(***************************************************************************)
(* What one ffprobe run on an output file gives: it exits non-zero, its    *)
(* output is not JSON, the JSON has no format.duration, or (fault "") the  *)
(* JSON gives the duration dur.  A failing run may still have printed.     *)
(***************************************************************************)
ProbeFaults == {"exit", "unparsable", "no_duration"}

\* blobserkfolder.py duration(p): ffprobe_json returns {} when ffprobe exits
\* non-zero, and the bare except turns every exception into 0.0
batch_duration(r) == IF r.fault # "" THEN 0 ELSE r.dur

ffprobe_duration_unguarded(r) == r.dur

\* blobserk.py ffprobe_duration(path): ffprobe_json raises RuntimeError when
\* ffprobe exits non-zero, json.loads raises on garbage, a missing duration
\* reads as 0.0; the bare except returns 0.0
ffprobe_duration(r) == IF r.fault # "" THEN 0 ELSE r.dur

\* process_one's view of a file: the cutter, how often the file was handed
\* to process_one, and the message process_one returned ("" before).
NewJob == NewCutter @@ [runs |-> 0, result |-> ""]

Terminal(c) == c.st \in {"Exhausted", "Aborted"}

\* ---- blobserkfolder.py split_copy
batch_is_degenerate_strict(cd) == cd < Slack

batch_is_degenerate(cd) == cd <= Slack

batch_past_end_noslack(off, d) == off >= d

batch_past_end(off, d) == off + Slack >= d

\* d = duration(infile); "Skip (no duration)" and return when d <= 0
split_copy_probe(c, src, d) ==
    LET c1 == [c EXCEPT !.calls = Append(@, ProbeCall(src, d, "")), !.d = d] IN
    IF d <= 0
    THEN [c1 EXCEPT !.st = "Aborted", !.why = "UnknownDuration"]
    ELSE [c1 EXCEPT !.st = "Cutting", !.i = 1, !.off = 0]

\* one ffmpeg invocation; "ERROR ffmpeg" and break when rc != 0
split_copy_cut(c, out, rc, limit) ==
    LET c1 == [c EXCEPT !.calls = Append(@, CutCall(out, c.off, c.i, rc, limit))] IN
    IF rc # 0
    THEN [c1 EXCEPT !.st = "Aborted", !.why = "CutFailed"]
    ELSE [c1 EXCEPT !.st = "Verifying"]

\* a loop body that restarts the offset at the last part's duration
split_copy_verify_restart(c, out, r) ==
    LET cd == batch_duration(r)
        c1 == [c EXCEPT !.calls = Append(@, ProbeCall(out, cd, r.fault)),
                        !.cd = cd] IN
    IF batch_is_degenerate(cd)
    THEN [c1 EXCEPT !.st = "Exhausted"]
    ELSE [c1 EXCEPT !.parts = Append(@, [index |-> c.i, path |-> out,
                                         actualDuration |-> cd]),
                    !.off = cd,
                    !.i = c.i + 1,
                    !.st = IF batch_past_end(cd, c.d) THEN "Exhausted"
                           ELSE "Cutting"]

\* cd = duration(outfile) and the rest of the loop body
split_copy_verify(c, out, r) ==
    LET cd == batch_duration(r)
        c1 == [c EXCEPT !.calls = Append(@, ProbeCall(out, cd, r.fault)),
                        !.cd = cd] IN
    IF batch_is_degenerate(cd)
    THEN [c1 EXCEPT !.st = "Exhausted"]
    ELSE LET off == c.off + cd IN
         [c1 EXCEPT !.parts = Append(@, [index |-> c.i, path |-> out,
                                         actualDuration |-> cd]),
                    !.off = off,
                    !.i = c.i + 1,
                    !.st = IF batch_past_end(off, c.d) THEN "Exhausted"
                           ELSE "Cutting"]

\* The files on disk after a cut: exit 0 leaves the output file; a failed
\* ffmpeg may or may not have created it (wrote).
DiskAfterCut(dk, out, rc, wrote) ==
    IF rc = 0 \/ wrote THEN dk \cup {out} ELSE dk

\* The files on disk after the verification: a degenerate part is unlinked.
batch_disk_after_verify(dk, out, cd) ==
    IF batch_is_degenerate(cd) THEN dk \ {out} ELSE dk

(***************************************************************************)
(* Collaborator responses the batch model draws from.                      *)
(***************************************************************************)
BatchSrcDurs == {0, MaxDur}

BatchPartDurs == {Slack, Slack + 1, MaxDur}

\* The probe of a part fails, or gives one of the durations above.
BatchPostProbes ==
    {[fault |-> "exit", dur |-> 0]}
        \cup {[fault |-> "", dur |-> x] : x \in BatchPartDurs}

ExitCodes == {0, 1}

(***************************************************************************)
(* blobserkfolder.py main and process_one                                  *)
(***************************************************************************)
Sequential == jobs <= 1

Workers_one_more == IF Sequential THEN 1 ELSE jobs + 1

\* The threads that run process_one: the main thread alone, or the pool's
\* max_workers threads.  The threads of a pool are interchangeable, so the
\* model keeps the set of files being processed, one per busy thread.
Workers == IF Sequential THEN 1 ELSE jobs

limit == human_to_bytes(size_limit).bytes

\* process_one returns msg for f; the sequential loop prints it at
\* once, the pool leaves it in the future for as_completed.
Finish(f, c, msg) ==
    /\ job' = [job EXCEPT ![f] = [c EXCEPT !.result = msg]]
    /\ running' = running \ {f}
    /\ printed' = IF Sequential THEN Append(printed, [msg |-> msg, file |-> f])
                  ELSE printed

Continue(f, c) ==
    /\ job' = [job EXCEPT ![f] = c]
    /\ running' = running \cup {f}
    /\ UNCHANGED printed

Step(f, c) ==
    IF Terminal(c) THEN Finish(f, c, "Done") ELSE Continue(f, c)

\* main() up to the dispatch
batch_main_start ==
    /\ prog = "batch" /\ b_pc = "start"
    /\ IF ~tools_ok \/ ~base_exists \/ ~human_to_bytes(size_limit).ok
       THEN /\ b_pc' = "exited" /\ b_exit' = 1
            /\ UNCHANGED <<files, queue>>
       ELSE /\ files' = gather_files(recursive)
            /\ IF files' = {}
               THEN /\ b_pc' = "exited" /\ b_exit' = 0
                    /\ UNCHANGED queue
               ELSE /\ b_pc' = "run" /\ queue' = files'
                    /\ UNCHANGED b_exit
    /\ UNCHANGED single_vars
    /\ UNCHANGED <<prog, tools_ok, size_limit, disk, base_exists, recursive,
                   skip_existing, jobs, running, job, printed>>

skips_ignored(f) == FALSE

skips(f) == skip_existing /\ first_part(f) \in disk

\* a free thread takes the next file and enters process_one
Take ==
    /\ prog = "batch" /\ b_pc = "run"
    /\ Cardinality(running) < Workers
    /\ \E f \in queue :
        /\ queue' = queue \ {f}
        /\ IF skips(f)
           THEN Finish(f, [job[f] EXCEPT !.runs = @ + 1], "Skip (exists)")
           ELSE Continue(f, [job[f] EXCEPT !.runs = @ + 1, !.st = "Probing"])
    /\ UNCHANGED single_vars
    /\ UNCHANGED <<prog, tools_ok, size_limit, disk, base_exists, recursive,
                   skip_existing, jobs, b_pc, b_exit, files>>

Probe(f) ==
    /\ prog = "batch" /\ f \in running
    /\ job[f].st = "Probing"
    /\ \E d \in BatchSrcDurs :
        Step(f, split_copy_probe(job[f], f.stem \o f.suffix, d))
    /\ UNCHANGED single_vars
    /\ UNCHANGED <<prog, tools_ok, size_limit, disk, base_exists, recursive,
                   skip_existing, jobs, b_pc, b_exit, files, queue>>

Cut(f) ==
    /\ prog = "batch" /\ f \in running
    /\ LET out == outfile(f, job[f].i) IN
       /\ job[f].st = "Cutting"
       /\ \E rc \in ExitCodes, wrote \in BOOLEAN :
            /\ Step(f, split_copy_cut(job[f], out, rc, limit))
            /\ disk' = DiskAfterCut(disk, out, rc, wrote)
    /\ UNCHANGED single_vars
    /\ UNCHANGED <<prog, tools_ok, size_limit, base_exists, recursive,
                   skip_existing, jobs, b_pc, b_exit, files, queue>>

Verify(f) ==
    /\ prog = "batch" /\ f \in running
    /\ LET out == outfile(f, job[f].i) IN
       /\ job[f].st = "Verifying"
       /\ \E r \in BatchPostProbes :
            /\ Step(f, split_copy_verify(job[f], out, r))
            /\ disk' = batch_disk_after_verify(disk, out, batch_duration(r))
    /\ UNCHANGED single_vars
    /\ UNCHANGED <<prog, tools_ok, size_limit, base_exists, recursive,
                   skip_existing, jobs, b_pc, b_exit, files, queue>>

Reported(f) == \E k \in 1..Len(printed) : printed[k].file = f

\* for fut in as_completed(futures): print(fut.result())
Report ==
    /\ prog = "batch" /\ b_pc = "run" /\ ~Sequential
    /\ \E f \in files :
        /\ job[f].result # "" /\ ~Reported(f)
        /\ printed' = Append(printed, [msg |-> job[f].result, file |-> f])
    /\ UNCHANGED single_vars
    /\ UNCHANGED <<prog, tools_ok, size_limit, disk, base_exists, recursive,
                   skip_existing, jobs, b_pc, b_exit, files, queue, running, job>>

\* print("All done.")
batch_main_done ==
    /\ prog = "batch" /\ b_pc = "run"
    /\ queue = {}
    /\ \A f \in files : Reported(f)
    /\ b_pc' = "exited" /\ b_exit' = 0
    /\ UNCHANGED single_vars
    /\ UNCHANGED <<prog, tools_ok, size_limit, disk, base_exists, recursive,
                   skip_existing, jobs, files, queue, running, job, printed>>


(***************************************************************************)
(* blobserk.py: the single-file program                                    *)
(***************************************************************************)
\* The input of the single-file program is one file, a.mp4, split into splits/.
infile == [dir |-> "", stem |-> "a", suffix |-> ".mp4", is_file |-> TRUE]

single_outfile(i) == "splits/" \o infile.stem \o "_part" \o Pad2(i) \o infile.suffix

\* What get_media_info can give: ffprobe fails (RuntimeError), or a duration
\* and a bitrate.
SingleSrcDurs == 0..MaxSingleDur

BitRates == {0, 800}

SinglePartDurs == 0..MaxPart

\* The probe of a part fails in one of three ways (a run that exits non-zero
\* may have printed a duration all the same), or gives a duration.
SinglePostProbes ==
    {[fault |-> f, dur |-> 0] : f \in ProbeFaults}
        \cup {[fault |-> "exit", dur |-> MaxPart]}
        \cup {[fault |-> "", dur |-> x] : x \in SinglePartDurs}

\* An exception nobody catches ends the Python process with status 1.
UncaughtExit == 1

\* --video-bitrate and --audio-bitrate at their defaults: 2_500_000 + 128k
total_target_bps == 2500000 + 128000

\* estimate_size_bytes, with the duration in ticks of 0.1 s
estimate_size_bytes(duration_s, bitrate_bps) ==
    IF duration_s <= 0 \/ bitrate_bps <= 0 THEN 0
    ELSE (duration_s * bitrate_bps) \div 80

Exit(code, cause) ==
    /\ s_pc' = "exited" /\ s_exit' = code /\ s_cause' = cause

\* main(): require_bin, infile.exists(), human_to_bytes
single_main_start ==
    /\ prog = "single" /\ s_pc = "start"
    /\ IF ~tools_ok THEN Exit(1, "tool_missing")
       ELSE IF ~input_exists THEN Exit(1, "input_missing")
       ELSE IF ~human_to_bytes(size_limit).ok THEN Exit(UncaughtExit, "bad_size")
       ELSE /\ s_pc' = "probe" /\ UNCHANGED <<s_exit, s_cause>>
    /\ UNCHANGED <<input_exists, reencode, simulate, cutter, remaining>>
    /\ UNCHANGED batch_vars
    /\ UNCHANGED <<prog, tools_ok, size_limit, disk>>

\* main(): get_media_info, the preview, and the entry of the chosen loop
single_main_probe ==
    /\ prog = "single" /\ s_pc = "probe"
    /\ \E ok \in BOOLEAN, duration \in SingleSrcDurs, src_bitrate \in BitRates :
        LET est_size == IF reencode
                        THEN estimate_size_bytes(duration, total_target_bps)
                        ELSE IF src_bitrate > 0
                             THEN estimate_size_bytes(duration, src_bitrate)
                             ELSE 0
            c1 == [cutter EXCEPT !.calls = Append(@, ProbeCall("a.mp4", IF ok THEN duration ELSE -1,
                                                      IF ok THEN "" ELSE "exit"))]
        IN
        /\ ok \/ (duration = 0 /\ src_bitrate = 0)
        /\ IF ~ok
           THEN Exit(UncaughtExit, "probe_failed")
                /\ cutter' = c1 /\ UNCHANGED remaining
           ELSE IF duration <= 0
           THEN Exit(2, "no_duration")
                /\ cutter' = c1 /\ UNCHANGED remaining
           ELSE IF est_size > 0 /\ limit = 0
           THEN Exit(UncaughtExit, "zero_division")
                /\ cutter' = c1 /\ UNCHANGED remaining
           ELSE IF simulate
           THEN Exit(0, "simulated")
                /\ cutter' = c1 /\ UNCHANGED remaining
           ELSE IF ~reencode
           THEN /\ s_pc' = "copy_probe"
                /\ cutter' = [c1 EXCEPT !.st = "Probing"]
                /\ UNCHANGED <<s_exit, s_cause, remaining>>
           ELSE /\ remaining' = duration
                /\ IF duration > Slack
                   THEN /\ s_pc' = "re_cut"
                        /\ cutter' = [c1 EXCEPT !.st = "Cutting", !.d = duration,
                                                !.off = 0, !.i = 1]
                        /\ UNCHANGED <<s_exit, s_cause>>
                   ELSE /\ Exit(0, "done")
                        /\ cutter' = [c1 EXCEPT !.st = "Exhausted", !.d = duration,
                                                !.off = 0, !.i = 1]
    /\ UNCHANGED <<input_exists, reencode, simulate>>
    /\ UNCHANGED batch_vars
    /\ UNCHANGED <<prog, tools_ok, size_limit, disk>>

\* ---- split_by_size_copy
copy_is_degenerate_strict(chunk_dur) == chunk_dur < Slack

copy_is_degenerate(chunk_dur) == chunk_dur <= Slack

copy_past_end_flipped(offset, duration) == offset + Slack <= duration

copy_past_end(offset, duration) == offset + Slack >= duration

\* duration, _ = get_media_info(infile); sys.exit(2) when duration <= 0
split_by_size_copy_probe(c, src, ok, duration) ==
    LET c1 == [c EXCEPT !.calls = Append(@, ProbeCall(src, IF ok THEN duration ELSE -1,
                                                       IF ok THEN "" ELSE "exit"))] IN
    IF ~ok THEN [c1 EXCEPT !.st = "Aborted", !.why = "ProbeFailed"]
    ELSE IF duration <= 0
    THEN [c1 EXCEPT !.st = "Aborted", !.why = "UnknownDuration", !.d = duration]
    ELSE [c1 EXCEPT !.st = "Cutting", !.d = duration, !.i = 1, !.off = 0]

split_by_size_copy_cut_noexit(c, out, rc, lim) ==
    [c EXCEPT !.calls = Append(@, CutCall(out, c.off, c.i, rc, lim)),
              !.st = "Verifying"]

\* one ffmpeg invocation; sys.exit(3) when it fails
split_by_size_copy_cut(c, out, rc, lim) ==
    LET c1 == [c EXCEPT !.calls = Append(@, CutCall(out, c.off, c.i, rc, lim))] IN
    IF rc # 0
    THEN [c1 EXCEPT !.st = "Aborted", !.why = "CutFailed"]
    ELSE [c1 EXCEPT !.st = "Verifying"]

\* chunk_dur = ffprobe_duration(outfile) and the rest of the loop body
split_by_size_copy_verify(c, out, r) ==
    LET chunk_dur == ffprobe_duration(r)
        c1 == [c EXCEPT !.calls = Append(@, ProbeCall(out, chunk_dur, r.fault)),
                        !.cd = chunk_dur] IN
    IF copy_is_degenerate(chunk_dur)
    THEN [c1 EXCEPT !.st = "Exhausted"]
    ELSE LET offset == c.off + chunk_dur IN
         [c1 EXCEPT !.parts = Append(@, [index |-> c.i, path |-> out,
                                         actualDuration |-> chunk_dur]),
                    !.off = offset,
                    !.i = c.i + 1,
                    !.st = IF copy_past_end(offset, c.d) THEN "Exhausted"
                           ELSE "Cutting"]

copy_disk_after_verify(dk, out, chunk_dur) ==
    IF copy_is_degenerate(chunk_dur) THEN dk \ {out} ELSE dk

\* How the process ends when the cutter has reached a terminal state.
ExitOf(c, cut_code) ==
    IF c.st = "Exhausted" THEN Exit(0, "done")
    ELSE IF c.why = "ProbeFailed" THEN Exit(UncaughtExit, "probe_failed")
    ELSE IF c.why = "UnknownDuration" THEN Exit(2, "no_duration")
    ELSE Exit(cut_code, IF cut_code = 3 THEN "copy_cut_failed"
                        ELSE "reencode_cut_failed")

SingleStep(c, next_pc, cut_code) ==
    /\ cutter' = c
    /\ IF Terminal(c) THEN ExitOf(c, cut_code)
       ELSE /\ s_pc' = next_pc /\ UNCHANGED <<s_exit, s_cause>>

copy_probe ==
    /\ prog = "single" /\ s_pc = "copy_probe"
    /\ \E ok \in BOOLEAN, duration \in SingleSrcDurs :
        /\ ok \/ duration = 0
        /\ SingleStep(split_by_size_copy_probe(cutter, "a.mp4", ok, duration),
                      "copy_cut", 3)
    /\ UNCHANGED <<input_exists, reencode, simulate, remaining>>
    /\ UNCHANGED batch_vars
    /\ UNCHANGED <<prog, tools_ok, size_limit, disk>>

copy_cut ==
    /\ prog = "single" /\ s_pc = "copy_cut"
    /\ LET out == single_outfile(cutter.i) IN
       \E rc \in ExitCodes, wrote \in BOOLEAN :
        /\ SingleStep(split_by_size_copy_cut(cutter, out, rc, limit),
                      "copy_verify", 3)
        /\ disk' = DiskAfterCut(disk, out, rc, wrote)
    /\ UNCHANGED <<input_exists, reencode, simulate, remaining>>
    /\ UNCHANGED batch_vars
    /\ UNCHANGED <<prog, tools_ok, size_limit>>

copy_verify ==
    /\ prog = "single" /\ s_pc = "copy_verify"
    /\ LET out == single_outfile(cutter.i) IN
       \E r \in SinglePostProbes :
        /\ SingleStep(split_by_size_copy_verify(cutter, out, r),
                      "copy_cut", 3)
        /\ disk' = copy_disk_after_verify(disk, out, ffprobe_duration(r))
    /\ UNCHANGED <<input_exists, reencode, simulate, remaining>>
    /\ UNCHANGED batch_vars
    /\ UNCHANGED <<prog, tools_ok, size_limit>>

\* ---- the re-encode loop of main()
reencode_continues(rem) == rem > Slack

\* one ffmpeg invocation of the re-encode loop; sys.exit(4) when it fails
reencode_cut(c, out, rc, lim) ==
    LET c1 == [c EXCEPT !.calls = Append(@, CutCall(out, c.off, c.i, rc, lim))] IN
    IF rc # 0
    THEN [c1 EXCEPT !.st = "Aborted", !.why = "CutFailed"]
    ELSE [c1 EXCEPT !.st = "Verifying"]

\* actual = ffprobe_duration(outfile); start, remaining, part_idx; the loop test
reencode_verify(c, out, r, rem) ==
    LET actual == ffprobe_duration(r) IN
    [c EXCEPT !.calls = Append(@, ProbeCall(out, actual, r.fault)),
              !.cd = actual,
              !.parts = Append(@, [index |-> c.i, path |-> out,
                                   actualDuration |-> actual]),
              !.off = c.off + actual,
              !.i = c.i + 1,
              !.st = IF reencode_continues(rem - actual) THEN "Cutting"
                     ELSE "Exhausted"]

Cuts(c) == SelectSeq(c.calls, LAMBDA e : e.op = "cut")

re_cut ==
    /\ prog = "single" /\ s_pc = "re_cut"
    /\ Len(Cuts(cutter)) < MaxReCuts
    /\ LET out == single_outfile(cutter.i) IN
       \E rc \in ExitCodes, wrote \in BOOLEAN :
        /\ SingleStep(reencode_cut(cutter, out, rc, limit), "re_verify", 4)
        /\ disk' = DiskAfterCut(disk, out, rc, wrote)
    /\ UNCHANGED <<input_exists, reencode, simulate, remaining>>
    /\ UNCHANGED batch_vars
    /\ UNCHANGED <<prog, tools_ok, size_limit>>

re_verify ==
    /\ prog = "single" /\ s_pc = "re_verify"
    /\ LET out == single_outfile(cutter.i) IN
       \E r \in SinglePostProbes :
        /\ SingleStep(reencode_verify(cutter, out, r, remaining), "re_cut", 4)
        /\ remaining' = remaining - ffprobe_duration(r)
    /\ UNCHANGED <<input_exists, reencode, simulate, disk>>
    /\ UNCHANGED batch_vars
    /\ UNCHANGED <<prog, tools_ok, size_limit>>

(***************************************************************************)
(* The two stream-copy loops side by side: split_by_size_copy runs in      *)
(* cutter, split_copy in job[infile], on the same source, with the same    *)
(* byte limit and prefix, and each collaborator response is given to both. *)
(* A loop takes a step only from the state the step belongs to, so the two *)
(* may fall out of step if they ever decide differently.                   *)
(***************************************************************************)
\* the result of ffprobe on the source, as get_media_info and duration see it
SourceProbeResult(ok, d) == [fault |-> IF ok THEN "" ELSE "exit", dur |-> d]

pair_probe ==
    /\ prog = "pair"
    /\ cutter.st = "Probing" \/ job[infile].st = "Probing"
    /\ \E ok \in BOOLEAN, d \in SingleSrcDurs :
        /\ ok \/ d = 0
        /\ cutter' = IF cutter.st = "Probing"
                     THEN split_by_size_copy_probe(cutter, "a.mp4", ok, d)
                     ELSE cutter
        /\ job' = IF job[infile].st = "Probing"
                  THEN [job EXCEPT ![infile] =
                          split_copy_probe(@, "a.mp4",
                                           batch_duration(SourceProbeResult(ok, d)))]
                  ELSE job
    /\ UNCHANGED <<prog, tools_ok, size_limit, disk, base_exists, recursive,
                   skip_existing, jobs, b_pc, b_exit, files, queue, running,
                   printed, input_exists, reencode, simulate, s_pc, s_exit,
                   s_cause, remaining>>

pair_cut ==
    /\ prog = "pair"
    /\ cutter.st = "Cutting" \/ job[infile].st = "Cutting"
    /\ \E rc \in ExitCodes, wrote \in BOOLEAN :
        LET s_out == single_outfile(cutter.i)
            b_out == outfile(infile, job[infile].i)
            dk == IF cutter.st = "Cutting"
                  THEN DiskAfterCut(disk, s_out, rc, wrote) ELSE disk
        IN
        /\ cutter' = IF cutter.st = "Cutting"
                     THEN split_by_size_copy_cut(cutter, s_out, rc, limit)
                     ELSE cutter
        /\ job' = IF job[infile].st = "Cutting"
                  THEN [job EXCEPT ![infile] = split_copy_cut(@, b_out, rc, limit)]
                  ELSE job
        /\ disk' = IF job[infile].st = "Cutting"
                   THEN DiskAfterCut(dk, b_out, rc, wrote) ELSE dk
    /\ UNCHANGED <<prog, tools_ok, size_limit, base_exists, recursive,
                   skip_existing, jobs, b_pc, b_exit, files, queue, running,
                   printed, input_exists, reencode, simulate, s_pc, s_exit,
                   s_cause, remaining>>

pair_verify ==
    /\ prog = "pair"
    /\ cutter.st = "Verifying" \/ job[infile].st = "Verifying"
    /\ \E r \in SinglePostProbes :
        LET s_out == single_outfile(cutter.i)
            b_out == outfile(infile, job[infile].i)
            dk == IF cutter.st = "Verifying"
                  THEN copy_disk_after_verify(disk, s_out, ffprobe_duration(r))
                  ELSE disk
        IN
        /\ cutter' = IF cutter.st = "Verifying"
                     THEN split_by_size_copy_verify(cutter, s_out, r)
                     ELSE cutter
        /\ job' = IF job[infile].st = "Verifying"
                  THEN [job EXCEPT ![infile] = split_copy_verify(@, b_out, r)]
                  ELSE job
        /\ disk' = IF job[infile].st = "Verifying"
                   THEN batch_disk_after_verify(dk, b_out, batch_duration(r))
                   ELSE dk
    /\ UNCHANGED <<prog, tools_ok, size_limit, base_exists, recursive,
                   skip_existing, jobs, b_pc, b_exit, files, queue, running,
                   printed, input_exists, reencode, simulate, s_pc, s_exit,
                   s_cause, remaining>>

(***************************************************************************)
(* Vocabulary of the properties                                            *)
(***************************************************************************)
\* The stream-copy cutters of the run: one per file of the batch, or the
\* single-file program's when it is not re-encoding.
CopyCutters ==
    IF prog = "batch" THEN {job[f] : f \in Folder}
    ELSE IF ~reencode THEN {cutter}
    ELSE {}

AllCutters == IF prog = "batch" THEN {job[f] : f \in Folder} ELSE {cutter}

InProgress(c) == c.st \in {"Probing", "Cutting", "Verifying"}

FailedCut(c) == \E k \in 1..Len(Cuts(c)) : Cuts(c)[k].rc # 0

Max(a, b) == IF a >= b THEN a ELSE b

CeilDiv(a, b) == (a + b - 1) \div b

MinDur(parts) ==
    CHOOSE m \in {parts[k].actualDuration : k \in 1..Len(parts)} :
        \A k \in 1..Len(parts) : m <= parts[k].actualDuration

Lines(f) == {k \in 1..Len(printed) : printed[k].file = f}

\* The files the spec's discovery rule selects, stated on the entry itself.
Discoverable(p) ==
    /\ p.is_file
    /\ p.suffix \in {".mp4", ".MKV"}
    /\ recursive \/ p.dir = ""

BatchStarted == prog = "batch" /\ b_pc # "start" /\ b_exit # 1

(***************************************************************************)
(* C1. Failure isolation in batch mode: a file whose cut collaborator      *)
(* exited non-zero is reported Failed (not Done), and every other file     *)
(* whose cuts all succeeded is reported Done.                              *)
(***************************************************************************)
C1_FailureIsolation ==
    prog = "batch" =>
        \A k \in 1..Len(printed) :
            LET c == job[printed[k].file] IN
            /\ FailedCut(c) => printed[k].msg = "Failed"
            /\ (Cuts(c) # <<>> /\ ~FailedCut(c)) => printed[k].msg = "Done"

(***************************************************************************)
(* C2. Batch completeness: exactly one job is dispatched for each          *)
(* discovered file with an allow-listed extension and none for any other   *)
(* entry, and every dispatched job eventually has exactly one outcome      *)
(* reported, whatever the completion order and whether siblings fail.      *)
(***************************************************************************)
C2_Safety ==
    prog = "batch" =>
        \A p \in Folder :
            /\ job[p].runs <= 1
            /\ job[p].runs = 1 => Discoverable(p)
            /\ Cardinality(Lines(p)) <= job[p].runs
            /\ (BatchStarted /\ Discoverable(p)) =>
                   (p \in queue \/ job[p].runs = 1)

C2_AllReported ==
    (prog = "batch" /\ tools_ok /\ base_exists /\ human_to_bytes(size_limit).ok) =>
        /\ b_pc = "exited"
        /\ \A p \in Folder :
            Discoverable(p) => (job[p].runs = 1 /\ Cardinality(Lines(p)) = 1)

C2_BatchCompleteness == [](C2_Safety) /\ <>(C2_AllReported)

\* all three files reported in a pool run, one of them after a failed cut,
\* and not in the order in which a sequential run would list them
C2_Witness ==
    /\ prog = "batch" /\ b_pc = "exited" /\ b_exit = 0 /\ jobs = 2 /\ recursive
    /\ Len(printed) = 3
    /\ \E p \in Folder : FailedCut(job[p])
    /\ \E p \in Folder : Len(job[p].parts) = 2
    /\ \A p \in Folder : Cardinality(Lines(p)) = job[p].runs

(***************************************************************************)
(* C3. Termination of the StreamCopy loop: with D the source duration and  *)
(* m the smallest duration among the recorded parts, the loop issues at    *)
(* most ceil(D / m) + 1 cuts; with no recorded part it issues at most one. *)
(***************************************************************************)
C3_Bound(c) ==
    IF c.parts = <<>>
    THEN Len(Cuts(c)) <= 1
    ELSE Len(Cuts(c)) <= CeilDiv(c.d, MinDur(c.parts)) + 1

\* A loop that has not reached a terminal state can take its next step, and
\* every step is a cut or the probe that follows one: with the bound on the
\* cuts, the loop ends.
C3_CutBound ==
    /\ \A c \in CopyCutters : C3_Bound(c)
    /\ prog = "batch" =>
          \A f \in Folder :
              InProgress(job[f]) => ENABLED (Probe(f) \/ Cut(f) \/ Verify(f))
    /\ (prog = "single" /\ ~reencode /\ InProgress(cutter)) =>
          ENABLED (copy_probe \/ copy_cut \/ copy_verify)

\* a loop that needed as many cuts as parts of the smallest size fit in D
C3_Witness ==
    \E c \in CopyCutters :
        /\ Terminal(c) /\ Len(c.parts) = 3 /\ Len(Cuts(c)) = 3
        /\ Len(Cuts(c)) = CeilDiv(c.d, MinDur(c.parts))

(***************************************************************************)
(* C4. Degenerate part in StreamCopy mode: when the probed duration of a   *)
(* new part is <= 0.2 s the part file is deleted, the loop ends Exhausted, *)
(* index and offset do not advance and the part is not recorded; so no     *)
(* recorded part has a duration <= 0.2 s.                                  *)
(***************************************************************************)
C4_NoShortPart ==
    \A c \in CopyCutters :
        \A k \in 1..Len(c.parts) : c.parts[k].actualDuration > Slack

C4_VerifyStep(c, cn, out) ==
    (c.st = "Verifying" /\ cn # c /\ cn.cd <= Slack) =>
        /\ cn.st = "Exhausted"
        /\ cn.i = c.i /\ cn.off = c.off /\ cn.parts = c.parts
        /\ out \notin disk'

C4_Step ==
    /\ prog = "batch" =>
         \A f \in Folder : C4_VerifyStep(job[f], job'[f], outfile(f, job[f].i))
    /\ (prog = "single" /\ ~reencode) =>
         C4_VerifyStep(cutter, cutter', single_outfile(cutter.i))

C4_Degenerate == [](C4_NoShortPart) /\ [][C4_Step]_vars

\* a part was recorded, the next one was probed at <= 0.2 s and is gone
C4_Witness ==
    \E c \in CopyCutters :
        /\ c.st = "Exhausted" /\ c.cd <= Slack /\ Len(c.parts) = 1
        /\ Len(Cuts(c)) = 2
        /\ Cuts(c)[2].path \notin disk

(***************************************************************************)
(* C5. Boundary stop in StreamCopy mode: once a part is recorded and the   *)
(* offset advanced, offset + 0.2 >= sourceDuration makes the loop          *)
(* Exhausted; every cut after the first is issued with                     *)
(* offset + 0.2 < sourceDuration.                                          *)
(***************************************************************************)
C5_BoundaryStop ==
    \A c \in CopyCutters :
        /\ \A k \in 2..Len(Cuts(c)) : Cuts(c)[k].off + Slack < c.d
        /\ (c.parts # <<>> /\ c.off + Slack >= c.d) => c.st = "Exhausted"

\* the slack decided: the offset is short of the end by less than 0.2 s
C5_Witness ==
    \E c \in CopyCutters :
        /\ c.st = "Exhausted" /\ Len(c.parts) = 2 /\ Len(Cuts(c)) = 2
        /\ c.off < c.d /\ c.off + Slack >= c.d

(***************************************************************************)
(* C6. A cut failure is terminal for the file: once the cut tool exits     *)
(* non-zero the file's cutter is Aborted, and no further cut or probe is   *)
(* invoked and no part written for the file (the single-file process has   *)
(* exited; in a batch the other files go on).                              *)
(***************************************************************************)
C6_FailedCutIsLast ==
    \A c \in AllCutters :
        \A k \in 1..Len(c.calls) :
            (c.calls[k].op = "cut" /\ c.calls[k].rc # 0) =>
                /\ k = Len(c.calls)
                /\ c.st = "Aborted"
                /\ prog = "single" => s_pc = "exited"

C6_Step ==
    /\ prog = "batch" =>
         \A f \in Folder :
            job[f].st = "Aborted" =>
                /\ job'[f].calls = job[f].calls /\ job'[f].st = "Aborted"
                /\ job'[f].parts = job[f].parts
                /\ \A i \in 1..(job[f].i + 1) :
                       (outfile(f, i) \in disk') <=> (outfile(f, i) \in disk)
    /\ prog = "single" =>
         (cutter.st = "Aborted" => (cutter' = cutter /\ disk' = disk))

C6_CutFailureTerminal == [](C6_FailedCutIsLast) /\ [][C6_Step]_vars

\* a file is aborted by a failed cut and a sibling is cut afterwards
C6_Witness ==
    /\ prog = "batch"
    /\ \E f, g \in Folder :
        /\ job[f].why = "CutFailed" /\ job[f].result = "Done"
        /\ Len(job[f].parts) = 1
        /\ job[g].st = "Verifying" /\ Len(job[g].parts) = 1

(***************************************************************************)
(* C7. Skip policy: with skipExisting, a file whose first expected part    *)
(* exists is marked Skipped with no external invocation, and no file of    *)
(* it is created, deleted or overwritten.                                  *)
(***************************************************************************)
C7_SkippedIsUntouched ==
    prog = "batch" =>
        \A f \in Folder :
            job[f].result = "Skip (exists)" =>
                (job[f].calls = <<>> /\ job[f].st = "Idle" /\ first_part(f) \in disk)

C7_Step ==
    prog = "batch" =>
        \A f \in Folder :
            /\ (job[f].runs = 0 /\ job'[f].runs = 1 /\ skip_existing
                  /\ ("out/" \o f.dir \o f.stem \o "_part01" \o f.suffix) \in disk) =>
                   (job'[f].result = "Skip (exists)" /\ job'[f].calls = <<>>
                      /\ disk' = disk)
            /\ job[f].result = "Skip (exists)" =>
                   /\ job'[f] = job[f]
                   /\ \A i \in 1..9 : (outfile(f, i) \in disk') <=> (outfile(f, i) \in disk)

C7_SkipPolicy == [](C7_SkippedIsUntouched) /\ [][C7_Step]_vars

\* one file was skipped while a sibling was split
C7_Witness ==
    /\ prog = "batch" /\ b_pc = "exited"
    /\ \E f, g \in Folder :
        /\ job[f].result = "Skip (exists)" /\ Cardinality(Lines(f)) = 1
        /\ Len(job[g].parts) = 2

(***************************************************************************)
(* C8. Bounded dispatch: at most max(1, concurrency) cutters are in        *)
(* progress at any moment, and a worker leaves a file only when the file's *)
(* cutter is terminal and process_one has returned.                        *)
(***************************************************************************)
C8_AtMostJobs ==
    prog = "batch" =>
        /\ Cardinality({f \in Folder : InProgress(job[f])}) <= Max(1, jobs)
        /\ \A f \in Folder : InProgress(job[f]) <=> f \in running

C8_Step ==
    prog = "batch" =>
        /\ \A f \in running \ running' :
               Terminal(job'[f]) /\ job'[f].result # ""
        /\ running' \ running # {} =>
               Cardinality(running) < Max(1, jobs)

C8_BoundedDispatch == [](C8_AtMostJobs) /\ [][C8_Step]_vars

\* two cutters in progress with jobs = 2 while a third file waits
C8_Witness ==
    /\ prog = "batch" /\ jobs = 2 /\ queue # {}
    /\ Cardinality({f \in Folder : InProgress(job[f])}) = 2

(***************************************************************************)
(* C9 as stated: each worker writes into an output directory specific to   *)
(* its own source file, so two jobs running at the same time never write   *)
(* into the same output directory.                                         *)
(***************************************************************************)
WrittenPaths(c) == {Cuts(c)[k].path : k \in 1..Len(Cuts(c))}

C9_OwnDirectory ==
    prog = "batch" =>
        \A f, g \in Folder :
            (f # g /\ InProgress(job[f]) /\ InProgress(job[g])
               /\ Cuts(job[f]) # <<>> /\ Cuts(job[g]) # <<>>) =>
                outdir(f) # outdir(g)

(***************************************************************************)
(* C9 amended: each job writes only files named                            *)
(* {outroot}/{source's relative directory}/{stem}_partNN{suffix}; files of *)
(* one source directory share an output directory, but no two jobs ever    *)
(* write the same output file.                                             *)
(***************************************************************************)
C9_NoSharedOutputFile ==
    prog = "batch" =>
        /\ \A f \in Folder : \A q \in WrittenPaths(job[f]) :
              \E i \in 1..9 :
                  q = "out/" \o f.dir \o f.stem \o "_part0" \o ToString(i) \o f.suffix
        /\ \A f, g \in Folder :
              f # g => WrittenPaths(job[f]) \cap WrittenPaths(job[g]) = {}

\* two jobs of the same source directory write at the same time
C9_Witness ==
    /\ prog = "batch"
    /\ \E f, g \in Folder :
        /\ f # g /\ outdir(f) = outdir(g)
        /\ job[f].st = "Verifying" /\ job[g].st = "Verifying"
        /\ Len(job[f].parts) = 1 /\ Len(job[g].parts) = 1

(***************************************************************************)
(* C10. Single-file exit codes: 1 when a required tool or the input file   *)
(* is missing, 2 whenever the source duration cannot be probed (also when  *)
(* the probe tool itself fails), 3 when a stream-copy cut fails, 4 when a  *)
(* re-encode cut fails.                                                    *)
(***************************************************************************)
C10_ExitCodes ==
    (prog = "single" /\ s_pc = "exited") =>
        /\ s_cause \in {"tool_missing", "input_missing"} => s_exit = 1
        /\ s_cause \in {"probe_failed", "no_duration"} => s_exit = 2
        /\ s_cause = "copy_cut_failed" => s_exit = 3
        /\ s_cause = "reencode_cut_failed" => s_exit = 4

(***************************************************************************)
(* C11. Size limit validity: parsing the --size-limit text either gives a  *)
(* strictly positive byte count or fails before any probe or cut; it never *)
(* gives 0, so no probe runs under, and no cut is issued with, a           *)
(* non-positive byte limit.                                                *)
(***************************************************************************)
C11_SizeLimitValidity ==
    \A c \in AllCutters :
        /\ c.calls # <<>> =>
              (human_to_bytes(size_limit).ok /\ human_to_bytes(size_limit).bytes > 0)
        /\ \A k \in 1..Len(Cuts(c)) : Cuts(c)[k].limit > 0

(***************************************************************************)
(* C12. The probe that follows a cut is fault-tolerant: when ffprobe exits *)
(* non-zero, prints garbage or prints no duration, the probing function    *)
(* returns 0; the failed probe leaves the cutter out of Aborted, the       *)
(* single-file process without an error status, and a batch ends only      *)
(* after every file has been reported.                                     *)
(***************************************************************************)
PostCutProbe(c, k) ==
    k > 1 /\ c.calls[k].op = "probe" /\ c.calls[k - 1].op = "cut"

FailedPostCutProbe(c, k) == PostCutProbe(c, k) /\ c.calls[k].fault # ""

C12_PostCutProbe ==
    \A c \in AllCutters :
        \A k \in 1..Len(c.calls) :
            FailedPostCutProbe(c, k) =>
                /\ c.calls[k].rc = 0
                /\ k = Len(c.calls) =>
                      /\ c.st \in {"Cutting", "Exhausted"}
                      /\ prog = "single" => s_exit \in {NoExit, 0}
                /\ (prog = "batch" /\ b_pc = "exited") =>
                      (b_exit = 0 /\ \A f \in files : Reported(f))

\* a batch went on to split a sibling after a failed probe of a part
C12_Witness ==
    /\ prog = "batch" /\ b_pc = "exited"
    /\ \E f, g \in Folder :
        /\ FailedPostCutProbe(job[f], Len(job[f].calls))
        /\ Len(job[f].parts) = 1 /\ job[f].st = "Exhausted"
        /\ Len(printed) >= 2 /\ printed[1].file = f /\ printed[2].file = g
        /\ Len(job[g].parts) = 2

(***************************************************************************)
(* C13. Unknown duration aborts before cutting: when the source probe      *)
(* gives a duration <= 0 the cutter goes from Probing to Aborted with      *)
(* UnknownDuration, no cut is invoked and no part is recorded; in a batch  *)
(* the file is not reported as Done.                                       *)
(***************************************************************************)
SourceProbes(c) ==
    {k \in 1..Len(c.calls) :
        c.calls[k].op = "probe" /\ ~PostCutProbe(c, k) /\ c.calls[k].fault = ""}

C13_AbortsBeforeCutting ==
    \A c \in CopyCutters :
        /\ (\E k \in SourceProbes(c) : c.calls[k].rc <= 0) =>
              /\ c.st \in {"Idle", "Aborted"}
              /\ c.st = "Aborted" => c.why = "UnknownDuration"
              /\ Cuts(c) = <<>> /\ c.parts = <<>>
        /\ c.why = "UnknownDuration" =>
              (\E k \in SourceProbes(c) : c.calls[k].rc <= 0)

C13_UnknownDuration ==
    /\ C13_AbortsBeforeCutting
    /\ prog = "batch" =>
          \A f \in Folder :
              job[f].why = "UnknownDuration" =>
                  /\ job[f].result # "Done"
                  /\ \A k \in Lines(f) : printed[k].msg # "Done"

(***************************************************************************)
(* C14. Termination of the re-encode loop for every sequence of probed     *)
(* part durations, zeros included.  The loop test reads only remaining,    *)
(* and durations are whole ticks: the loop ends under every sequence of    *)
(* responses exactly when no iteration leaves remaining where it was, for  *)
(* an iteration that does can be answered the same way for ever.  So:     *)
(* remaining is the source duration less the start offset, and each cut    *)
(* starts later than the one before it.                                    *)
(***************************************************************************)
C14_ReEncodeTerminates ==
    (prog = "single" /\ reencode /\ cutter.st # "Idle") =>
        /\ remaining = cutter.d - cutter.off
        /\ \A k \in 2..Len(Cuts(cutter)) :
               Cuts(cutter)[k].off > Cuts(cutter)[k - 1].off

(***************************************************************************)
(* C15. Verifying step of the re-encode loop: a part probed at <= 0.2 s is *)
(* deleted and ends the loop without being counted; no recorded part has a *)
(* duration <= 0.2 s, none is left on disk, and the index does not advance *)
(* for it.                                                                 *)
(***************************************************************************)
C15_ReEncodeDegenerate ==
    (prog = "single" /\ reencode) =>
        /\ \A k \in 1..Len(cutter.parts) :
               cutter.parts[k].actualDuration > Slack
        /\ \A k \in 1..Len(cutter.calls) :
               (PostCutProbe(cutter, k) /\ cutter.calls[k].rc <= Slack) =>
                   /\ k = Len(cutter.calls)
                   /\ cutter.st = "Exhausted"
                   /\ cutter.i = cutter.calls[k - 1].i
                   /\ cutter.calls[k].path \notin disk

(***************************************************************************)
(* C16. No failed or degenerate part survives: when a stream-copy cutter   *)
(* is Exhausted or Aborted, every output file its cuts wrote that is still *)
(* on disk is a recorded part; the output of a cut that exited non-zero    *)
(* and that of a degenerate cut are gone.                                  *)
(***************************************************************************)
RecordedPaths(c) == {c.parts[k].path : k \in 1..Len(c.parts)}

Survivors(c) == (WrittenPaths(c) \cap disk) \ RecordedPaths(c)

\* the half about degenerate cuts
C16_DegenerateDeleted ==
    \A c \in CopyCutters :
        (Terminal(c) /\ ~FailedCut(c)) => Survivors(c) = {}

C16_NoFailedPartSurvives ==
    \A c \in CopyCutters : Terminal(c) => Survivors(c) = {}

(***************************************************************************)
(* C17. Causal offset: within one file the cuts are issued one after       *)
(* another, each followed by the probe of its output before the next cut;  *)
(* the start offset of the cut for part N is the sum of the probed         *)
(* durations of the recorded parts 1..N-1 (0 for N = 1), and the offset    *)
(* never decreases.                                                        *)
(***************************************************************************)
RECURSIVE SumDur(_, _)
SumDur(parts, n) ==
    IF n = 0 THEN 0 ELSE SumDur(parts, n - 1) + parts[n].actualDuration

C17_Offsets(c) ==
    /\ \A k \in 1..Len(Cuts(c)) :
           LET e == Cuts(c)[k] IN
           /\ e.i = k /\ e.i - 1 <= Len(c.parts)
           /\ e.off = SumDur(c.parts, e.i - 1)
    /\ \A k \in 2..Len(Cuts(c)) : Cuts(c)[k].off >= Cuts(c)[k - 1].off
    /\ \A k \in 1..(Len(c.calls) - 1) :
           c.calls[k].op = "cut" =>
               (c.calls[k + 1].op = "probe" /\ c.calls[k + 1].path = c.calls[k].path)
    /\ c.off = SumDur(c.parts, Len(c.parts))

C17_CausalOffset ==
    /\ \A c \in AllCutters : C17_Offsets(c)
    /\ prog = "batch" => \A f \in Folder : job[f].runs <= 1

\* a third cut issued at the sum of two different part durations
C17_Witness ==
    \E c \in AllCutters :
        /\ Len(Cuts(c)) = 3 /\ Len(c.parts) >= 2
        /\ c.parts[1].actualDuration # c.parts[2].actualDuration
        /\ Cuts(c)[2].off = c.parts[1].actualDuration
        /\ Cuts(c)[3].off = c.parts[1].actualDuration + c.parts[2].actualDuration

(***************************************************************************)
(* C18. Part index: within one stream-copy run on one file the index used  *)
(* in the output names starts at 1 and grows by exactly 1 per recorded     *)
(* part, each output path is written by at most one cut, and the recorded  *)
(* parts carry the contiguous indices 1..N.                                *)
(***************************************************************************)
\* the names {prefix}_partNN{suffix} an index below 10 can stand in
NamesOf(i) ==
    {"out/" \o f.dir \o f.stem \o "_part0" \o ToString(i) \o f.suffix : f \in Folder}
        \cup {"splits/a_part0" \o ToString(i) \o ".mp4"}

C18_Indices(c) ==
    /\ \A k \in 1..Len(c.parts) :
           /\ c.parts[k].index = k
           /\ c.parts[k].path \in NamesOf(k)
           /\ c.parts[k].path = Cuts(c)[k].path
    /\ \A k \in 1..Len(Cuts(c)) :
           /\ Cuts(c)[k].i = k
           /\ Cuts(c)[k].path \in NamesOf(k)
    /\ \A j, k \in 1..Len(Cuts(c)) :
           j # k => Cuts(c)[j].path # Cuts(c)[k].path
    /\ c.st \in {"Cutting", "Verifying"} => c.i = Len(c.parts) + 1
    /\ Terminal(c) => {c.parts[k].index : k \in 1..Len(c.parts)} = 1..Len(c.parts)

C18_PartIndex == \A c \in CopyCutters : C18_Indices(c)

\* two recorded parts and a third, degenerate cut under the next index
C18_Witness ==
    \E c \in CopyCutters :
        /\ Terminal(c) /\ Len(c.parts) = 2 /\ Len(Cuts(c)) = 3
        /\ Cuts(c)[3].i = 3 /\ Cuts(c)[3].path \notin RecordedPaths(c)
        /\ RecordedPaths(c) \subseteq disk

(***************************************************************************)
(* C19. Coverage at success: whenever a stream-copy segmentation ends in   *)
(* Exhausted, the durations of the recorded parts plus 0.2 s reach the     *)
(* source duration; a degenerate cut or a failed probe of a part in the    *)
(* middle of the source does not end the run as a success.                 *)
(***************************************************************************)
Covered(c) == SumDur(c.parts, Len(c.parts)) + Slack >= c.d

\* what does hold: a loop that ended on the boundary test covers the source
C19_CoveredAtBoundary ==
    \A c \in CopyCutters :
        (c.st = "Exhausted" /\ c.cd > Slack) => Covered(c)

C19_CoverageAtSuccess ==
    \A c \in CopyCutters : c.st = "Exhausted" => Covered(c)

(***************************************************************************)
(* C20. Equivalence of the two stream-copy drivers: given the same source, *)
(* byte limit, prefix and collaborator responses, split_by_size_copy and   *)
(* split_copy are in the same state of the loop, have issued the same      *)
(* sequence of cuts (offset, index, limit), have recorded the same parts,  *)
(* and leave part files of the same indices on disk.                       *)
(***************************************************************************)
CutView(c) ==
    [k \in 1..Len(Cuts(c)) |->
        <<Cuts(c)[k].off, Cuts(c)[k].i, Cuts(c)[k].limit, Cuts(c)[k].rc>>]

PartView(c) ==
    [k \in 1..Len(c.parts) |-> <<c.parts[k].index, c.parts[k].actualDuration>>]

C20_DriversEquivalent ==
    prog = "pair" =>
        /\ cutter.st = job[infile].st
        /\ CutView(cutter) = CutView(job[infile])
        /\ PartView(cutter) = PartView(job[infile])
        /\ cutter.off = job[infile].off /\ cutter.i = job[infile].i
        /\ {i \in 1..9 : single_outfile(i) \in disk}
              = {i \in 1..9 : outfile(infile, i) \in disk}

\* both loops recorded two parts and dropped a third, degenerate one
C20_Witness ==
    /\ prog = "pair"
    /\ cutter.st = "Exhausted" /\ job[infile].st = "Exhausted"
    /\ Len(cutter.parts) = 2 /\ Len(job[infile].parts) = 2
    /\ Len(Cuts(cutter)) = 3 /\ Len(Cuts(job[infile])) = 3
    /\ {i \in 1..9 : outfile(infile, i) \in disk} = {1, 2}

(***************************************************************************)
(* Initial states                                                          *)
(***************************************************************************)
Videos == gather_files(TRUE)

\* What an earlier run may have left under outroot: nothing, or the first
\* part of one of the videos.
StaleSets == {{}} \cup {{f} : f \in Videos}

InitBatch ==
    /\ prog = "batch"
    /\ tools_ok \in BOOLEAN
    /\ base_exists \in BOOLEAN
    /\ size_limit \in SizeTexts
    /\ recursive \in BOOLEAN
    /\ skip_existing \in BOOLEAN
    /\ jobs \in 0..MaxJobs
    /\ \E stale \in StaleSets : disk = {first_part(f) : f \in stale}
    /\ b_pc = "start" /\ b_exit = NoExit
    /\ files = {} /\ queue = {}
    /\ running = {}
    /\ job = [f \in Folder |-> NewJob]
    /\ printed = <<>>
    /\ input_exists = FALSE /\ reencode = FALSE /\ simulate = FALSE
    /\ s_pc = "exited" /\ s_exit = NoExit /\ s_cause = ""
    /\ cutter = NewCutter /\ remaining = 0

InitSingle ==
    /\ prog = "single"
    /\ tools_ok \in BOOLEAN
    /\ input_exists \in BOOLEAN
    /\ size_limit \in SingleSizeTexts
    /\ reencode \in BOOLEAN
    /\ simulate \in BOOLEAN
    /\ \E stale \in SUBSET {1} : disk = {single_outfile(i) : i \in stale}
    /\ s_pc = "start" /\ s_exit = NoExit /\ s_cause = ""
    /\ cutter = NewCutter /\ remaining = 0
    /\ base_exists = FALSE /\ recursive = FALSE /\ skip_existing = FALSE
    /\ jobs = 0 /\ b_pc = "exited" /\ b_exit = NoExit
    /\ files = {} /\ queue = {}
    /\ running = {}
    /\ job = [f \in Folder |-> NewJob]
    /\ printed = <<>>

\* The two loops start on the same source with the same output directory
\* contents: empty, or a first part left by an earlier run.
InitPair ==
    /\ prog = "pair"
    /\ tools_ok = TRUE
    /\ size_limit \in {t \in SingleSizeTexts : human_to_bytes(t).ok}
    /\ \E stale \in SUBSET {1} :
          disk = {single_outfile(i) : i \in stale}
                   \cup {outfile(infile, i) : i \in stale}
    /\ cutter = [NewCutter EXCEPT !.st = "Probing"]
    /\ job = [f \in Folder |->
                IF f = infile THEN [NewJob EXCEPT !.st = "Probing"] ELSE NewJob]
    /\ input_exists = TRUE /\ reencode = FALSE /\ simulate = FALSE
    /\ s_pc = "exited" /\ s_exit = NoExit /\ s_cause = "" /\ remaining = 0
    /\ base_exists = TRUE /\ recursive = FALSE /\ skip_existing = FALSE
    /\ jobs = 0 /\ b_pc = "exited" /\ b_exit = NoExit
    /\ files = {} /\ queue = {}
    /\ running = {}
    /\ printed = <<>>

Init == InitBatch \/ InitSingle \/ InitPair

Next ==
    \/ batch_main_start
    \/ Take
    \/ \E f \in Folder : Probe(f)
    \/ \E f \in Folder : Cut(f)
    \/ \E f \in Folder : Verify(f)
    \/ Report
    \/ batch_main_done
    \/ single_main_start
    \/ single_main_probe
    \/ copy_probe
    \/ copy_cut
    \/ copy_verify
    \/ re_cut
    \/ re_verify
    \/ pair_probe
    \/ pair_cut
    \/ pair_verify

Spec == Init /\ [][Next]_vars

\* Every external process ends and every thread that can run does run.
FairSpec == Spec /\ WF_vars(Next)

====
